---------------------------- MODULE Spec2Model ----------------------------
(***************************************************************************)
(* Generic tree traversals of treestuff.py: the generator functions        *)
(* postorder, preorder and levelorder, the TreeBase facade with its        *)
(* NodeTree and TupleTree adapters, the children accessors and print_tree. *)
(*                                                                         *)
(* A generator is a record; one call of next() on it is one action, from   *)
(* one yield to the following one (or to exhaustion).                      *)
(***************************************************************************)
EXTENDS Integers, Sequences, FiniteSets, TLC

VARIABLES
    simpletree,   \* the nested pair <<value, <<child, ...>>>> (root of the tuple tree)
    nodes,        \* the Node namedtuples, by object identity 1..n; root is 1, None is 0
    objs,         \* the NodeTree objects, by object identity 1..n; root is 1, None is 0
    gen,          \* the live generators: a sequence of generator records
    printer,      \* the print_tree invocation: its traversal generator and position
    stdout        \* the characters written to standard output

vars == <<simpletree, nodes, objs, gen, printer, stdout>>

\* ---------------------------------------------------------------- bounds
MaxNodes == 3      \* trees of 1..MaxNodes nodes (plus the script's 5-node tree)

MaxYield == 2 * MaxNodes + 2   \* cap on the yields followed on a cyclic structure
MaxDepth == MaxNodes + 2       \* cap on the recursion depth followed on a cyclic structure

\* ---------------------------------------------------------------- helpers
None == 0

RECURSIVE reversed(_)
reversed(seq) ==
    IF Len(seq) = 0 THEN <<>>
    ELSE Append(reversed(Tail(seq)), Head(seq))

Last(seq) == seq[Len(seq)]
Front(seq) == SubSeq(seq, 1, Len(seq) - 1)

\* ------------------------------------------------- the tree representations
\* A shape: n nodes 1..n, par[i] the parent of i (0 for the root 1), val[i] its value;
\* the children of a node are ordered by identity.
\* the values 1..n, laid on the nodes in one of n ways
Vals(n) == {[i \in 1..n |-> ((i - 1 + k) % n) + 1] : k \in 0..(n - 1)}

Pars(n) == {p \in [1..n -> 0..n] :
              /\ p[1] = 0
              /\ \A i \in 2..n : p[i] >= 1 /\ p[i] < i}

\* the shape the script builds three times: 1 -> [2 -> [4, 5], 3]
ScriptShape == [n |-> 5, par |-> <<0, 1, 1, 2, 2>>, val |-> <<1, 2, 3, 4, 5>>]

Shapes ==
    {ScriptShape} \cup
    UNION {{[n |-> n, par |-> p, val |-> v] : p \in Pars(n), v \in Vals(n)} :
              n \in 1..MaxNodes}

RECURSIVE KidsFrom(_, _, _)
KidsFrom(sh, x, i) ==
    IF i > sh.n THEN <<>>
    ELSE IF sh.par[i] = x THEN <<i>> \o KidsFrom(sh, x, i + 1)
    ELSE KidsFrom(sh, x, i + 1)

Kids(sh, x) == KidsFrom(sh, x, 1)

\* simpletree = (1, ((2, ((4, ()), (5, ()))), (3, ())))
RECURSIVE TupleOf(_, _)
TupleOf(sh, x) ==
    LET ks == Kids(sh, x)
    IN  <<sh.val[x], [i \in 1..Len(ks) |-> TupleOf(sh, ks[i])]>>

FirstChild(sh, x) ==
    LET ks == Kids(sh, x) IN IF Len(ks) = 0 THEN None ELSE ks[1]

NextSibling(sh, x) ==
    IF sh.par[x] = 0 THEN None
    ELSE LET ks == Kids(sh, sh.par[x])
             i  == CHOOSE j \in 1..Len(ks) : ks[j] = x
         IN  IF i = Len(ks) THEN None ELSE ks[i + 1]

\* Node = namedtuple('Node', 'value first_child next_sibling'); node3 .. root
NodesOf(sh) ==
    [x \in 1..sh.n |-> [value        |-> sh.val[x],
                        first_child  |-> FirstChild(sh, x),
                        next_sibling |-> NextSibling(sh, x)]]

\* NodeTree(value, first_child, next_sibling); node3 .. root
NodeTree_init(sh) ==
    [x \in 1..sh.n |-> [_value        |-> sh.val[x],
                        _first_child  |-> FirstChild(sh, x),
                        _next_sibling |-> NextSibling(sh, x)]]

\* ------------------------------------------------------- the accessors
\* itemgetter(1): node[1], the children tuple of a nested pair
itemgetter_1(node) == node[2]

\* itemgetter(0): node[0], the value of a nested pair
itemgetter_0(node) == node[1]

\* attrgetter('value')
attrgetter_value(h, node) == h[node].value

\* def children(node): the loop from a node along next_sibling
RECURSIVE children_loop(_, _)
children_loop(h, node) ==
    IF node = None THEN <<>>
    ELSE <<node>> \o children_loop(h, h[node].next_sibling)

\* Faulty variant (C6): the walk advances to next_sibling before its first yield, so
\* the first child is skipped.
children_skips_first(h, node) ==
    IF h[node].first_child = None THEN <<>>
    ELSE children_loop(h, h[h[node].first_child].next_sibling)

children(h, node) == children_loop(h, h[node].first_child)

RECURSIVE NodeTree_children_loop(_, _)
NodeTree_children_loop(h, node) ==
    IF node = None THEN <<>>
    ELSE <<node>> \o NodeTree_children_loop(h, h[node]._next_sibling)

NodeTree_children(h, node) == NodeTree_children_loop(h, h[node]._first_child)

NodeTree_value(h, node) == h[node]._value

NodeTree_root == 1

TupleTree_root(tup) == tup

TupleTree_children(node) == node[2]

TupleTree_value(node) == node[1]

\* ------------------------------------------------------- the generators
\* A generator object: fn the generator function, api the accessors it was given
\* ("itemgetter": simpletree with itemgetter(1); "children": the Node records with
\* children; "NodeTree", "TupleTree": a method of that adapter), pc its position
\* ("start" before the first next(), "yielded" suspended at its yield, "running"
\* inside a next() call, "done" exhausted), its locals node and s (the list of
\* preorder, the deque of levelorder), frames (the suspended recursive generators
\* of postorder, innermost last, each with its node and the children it has still
\* to iterate), out (the nodes yielded) and calls (the nodes the accessor was
\* applied to).
FreeApis == {"itemgetter", "children"}
MethodApis == {"NodeTree", "TupleTree"}
Fns == {"preorder", "postorder", "levelorder"}

\* the first argument of the script's calls: simpletree, or root
root_arg(api) == IF api = "itemgetter" THEN simpletree ELSE 1

\* children_func(node), for the accessor the script passes
children_func(api, node) ==
    IF api = "itemgetter" THEN itemgetter_1(node) ELSE children(nodes, node)

\* value_func(node), for the accessor the script passes
value_func(api, node) ==
    IF api = "itemgetter" THEN itemgetter_0(node) ELSE attrgetter_value(nodes, node)

\* self.root(), self.children(node), self.value(node) by the class of self
self_root(api) ==
    IF api = "TupleTree" THEN TupleTree_root(simpletree) ELSE NodeTree_root

self_children(api, node) ==
    IF api = "TupleTree" THEN TupleTree_children(node)
    ELSE NodeTree_children(objs, node)

self_value(api, node) ==
    IF api = "TupleTree" THEN TupleTree_value(node) ELSE NodeTree_value(objs, node)

NewGen(fn, api) ==
    [fn |-> fn, api |-> api, pc |-> "start",
     node |-> IF api \in FreeApis THEN root_arg(api) ELSE self_root(api),
     s |-> <<>>, frames |-> <<>>, out |-> <<>>, calls |-> <<>>]

\* Faulty variant (C2): the children are pushed without reversed().
preorder_not_reversed(g) ==
    LET s1 == IF g.pc = "start" THEN <<g.node>>
              ELSE g.s \o children_func(g.api, g.node)
        c1 == IF g.pc = "start" THEN g.calls ELSE Append(g.calls, g.node)
    IN  IF Len(s1) = 0
        THEN [g EXCEPT !.pc = "done", !.s = s1, !.calls = c1]
        ELSE [g EXCEPT !.pc = "yielded", !.node = Last(s1), !.s = Front(s1),
                       !.out = Append(@, Last(s1)), !.calls = c1]

\* Faulty variant (C10): the children of the popped node are pushed before the node
\* is yielded; the order of the yields is the same.
preorder_eager(g) ==
    LET s1 == IF g.pc = "start" THEN <<g.node>> ELSE g.s
    IN  IF Len(s1) = 0
        THEN [g EXCEPT !.pc = "done", !.s = s1]
        ELSE [g EXCEPT !.pc = "yielded", !.node = Last(s1),
                       !.s = Front(s1) \o reversed(children_func(g.api, Last(s1))),
                       !.out = Append(@, Last(s1)),
                       !.calls = Append(@, Last(s1))]

\* def preorder(node, children_func): one next()
preorder(g) ==
    LET s1 == IF g.pc = "start" THEN <<g.node>>
              ELSE g.s \o reversed(children_func(g.api, g.node))
        c1 == IF g.pc = "start" THEN g.calls ELSE Append(g.calls, g.node)
    IN  IF Len(s1) = 0
        THEN [g EXCEPT !.pc = "done", !.s = s1, !.calls = c1]
        ELSE [g EXCEPT !.pc = "yielded", !.node = Last(s1), !.s = Front(s1),
                       !.out = Append(@, Last(s1)), !.calls = c1]

\* Faulty variant (C4): the node is taken from the right end of the deque (pop()
\* for popleft()).
levelorder_pops_right(g) ==
    LET q1 == IF g.pc = "start" THEN <<g.node>>
              ELSE g.s \o children_func(g.api, g.node)
        c1 == IF g.pc = "start" THEN g.calls ELSE Append(g.calls, g.node)
    IN  IF Len(q1) = 0
        THEN [g EXCEPT !.pc = "done", !.s = q1, !.calls = c1]
        ELSE [g EXCEPT !.pc = "yielded", !.node = Last(q1), !.s = Front(q1),
                       !.out = Append(@, Last(q1)), !.calls = c1]

\* Variant (C9): children already yielded are not enqueued again, which ends the
\* traversal of a cyclic structure.
levelorder_skips_seen(g) ==
    LET seen(x) == \E k \in 1..Len(g.out) : g.out[k] = x
        q1 == IF g.pc = "start" THEN <<g.node>>
              ELSE g.s \o SelectSeq(children_func(g.api, g.node), LAMBDA x : ~seen(x))
        c1 == IF g.pc = "start" THEN g.calls ELSE Append(g.calls, g.node)
    IN  IF Len(q1) = 0
        THEN [g EXCEPT !.pc = "done", !.s = q1, !.calls = c1]
        ELSE [g EXCEPT !.pc = "yielded", !.node = Head(q1), !.s = Tail(q1),
                       !.out = Append(@, Head(q1)), !.calls = c1]

\* def levelorder(node, children_func): one next()
levelorder(g) ==
    LET q1 == IF g.pc = "start" THEN <<g.node>>
              ELSE g.s \o children_func(g.api, g.node)
        c1 == IF g.pc = "start" THEN g.calls ELSE Append(g.calls, g.node)
    IN  IF Len(q1) = 0
        THEN [g EXCEPT !.pc = "done", !.s = q1, !.calls = c1]
        ELSE [g EXCEPT !.pc = "yielded", !.node = Head(q1), !.s = Tail(q1),
                       !.out = Append(@, Head(q1)), !.calls = c1]

\* Faulty variant (C3): the for loop takes the children in reverse order.
postorder_step_reversed(g) ==
    IF g.pc = "start"
    THEN [g EXCEPT !.pc = "running",
                   !.frames = <<[node |-> g.node,
                                 it |-> reversed(children_func(g.api, g.node))]>>,
                   !.calls = Append(@, g.node)]
    ELSE IF g.pc = "yielded"
    THEN [g EXCEPT !.pc = IF Len(g.frames) = 1 THEN "done" ELSE "running",
                   !.frames = Front(@)]
    ELSE LET top == Last(g.frames) IN
         IF Len(top.it) = 0
         THEN [g EXCEPT !.pc = "yielded", !.node = top.node,
                        !.out = Append(@, top.node)]
         ELSE LET child == Head(top.it) IN
              [g EXCEPT !.frames = Append([@ EXCEPT ![Len(@)].it = Tail(top.it)],
                                          [node |-> child,
                                           it |-> reversed(children_func(g.api, child))]),
                        !.calls = Append(@, child)]

\* def postorder(node, children_func): one step inside next(): a recursive
\* generator is created and starts its for loop, or the for loop of the innermost
\* one takes its next child, or reaches `yield node`, or the generator that has
\* yielded its node returns to the `yield from` of its caller.
postorder_step(g) ==
    IF g.pc = "start"
    THEN [g EXCEPT !.pc = "running",
                   !.frames = <<[node |-> g.node, it |-> children_func(g.api, g.node)]>>,
                   !.calls = Append(@, g.node)]
    ELSE IF g.pc = "yielded"
    THEN [g EXCEPT !.pc = IF Len(g.frames) = 1 THEN "done" ELSE "running",
                   !.frames = Front(@)]
    ELSE LET top == Last(g.frames) IN
         IF Len(top.it) = 0
         THEN [g EXCEPT !.pc = "yielded", !.node = top.node,
                        !.out = Append(@, top.node)]
         ELSE LET child == Head(top.it) IN
              [g EXCEPT !.frames = Append([@ EXCEPT ![Len(@)].it = Tail(top.it)],
                                          [node |-> child,
                                           it |-> children_func(g.api, child)]),
                        !.calls = Append(@, child)]

RECURSIVE postorder_run(_)
postorder_run(g) ==
    IF g.pc \in {"yielded", "done"} THEN g ELSE postorder_run(postorder_step(g))

\* Faulty variant (C1): `postorder(child, children_func)` without `yield from`: the
\* recursive generators are created and dropped, only the outermost node is yielded.
postorder_without_yield_from(g) ==
    IF g.pc = "start"
    THEN [g EXCEPT !.pc = "yielded",
                   !.frames = <<[node |-> g.node, it |-> <<>>]>>,
                   !.out = <<g.node>>, !.calls = <<g.node>>]
    ELSE [g EXCEPT !.pc = "done", !.frames = <<>>]

\* def postorder(node, children_func): one next()
postorder(g) == postorder_run(postorder_step(g))

\* Faulty variant (C5): the method pushes the children without reversed().
TreeBase_preorder_not_reversed(g) ==
    LET s1 == IF g.pc = "start" THEN <<self_root(g.api)>>
              ELSE g.s \o self_children(g.api, g.node)
        c1 == IF g.pc = "start" THEN g.calls ELSE Append(g.calls, g.node)
    IN  IF Len(s1) = 0
        THEN [g EXCEPT !.pc = "done", !.s = s1, !.calls = c1]
        ELSE [g EXCEPT !.pc = "yielded", !.node = Last(s1), !.s = Front(s1),
                       !.out = Append(@, Last(s1)), !.calls = c1]

\* TreeBase.preorder(self): one next()
TreeBase_preorder(g) ==
    LET s1 == IF g.pc = "start" THEN <<self_root(g.api)>>
              ELSE g.s \o reversed(self_children(g.api, g.node))
        c1 == IF g.pc = "start" THEN g.calls ELSE Append(g.calls, g.node)
    IN  IF Len(s1) = 0
        THEN [g EXCEPT !.pc = "done", !.s = s1, !.calls = c1]
        ELSE [g EXCEPT !.pc = "yielded", !.node = Last(s1), !.s = Front(s1),
                       !.out = Append(@, Last(s1)), !.calls = c1]

\* TreeBase.levelorder(self): one next()
TreeBase_levelorder(g) ==
    LET q1 == IF g.pc = "start" THEN <<self_root(g.api)>>
              ELSE g.s \o self_children(g.api, g.node)
        c1 == IF g.pc = "start" THEN g.calls ELSE Append(g.calls, g.node)
    IN  IF Len(q1) = 0
        THEN [g EXCEPT !.pc = "done", !.s = q1, !.calls = c1]
        ELSE [g EXCEPT !.pc = "yielded", !.node = Head(q1), !.s = Tail(q1),
                       !.out = Append(@, Head(q1)), !.calls = c1]

\* TreeBase.postorder(self) with its inner _postorder(node): one step inside next()
TreeBase_postorder_step(g) ==
    IF g.pc = "start"
    THEN LET r == self_root(g.api) IN
         [g EXCEPT !.pc = "running",
                   !.frames = <<[node |-> r, it |-> self_children(g.api, r)]>>,
                   !.calls = Append(@, r)]
    ELSE IF g.pc = "yielded"
    THEN [g EXCEPT !.pc = IF Len(g.frames) = 1 THEN "done" ELSE "running",
                   !.frames = Front(@)]
    ELSE LET top == Last(g.frames) IN
         IF Len(top.it) = 0
         THEN [g EXCEPT !.pc = "yielded", !.node = top.node,
                        !.out = Append(@, top.node)]
         ELSE LET child == Head(top.it) IN
              [g EXCEPT !.frames = Append([@ EXCEPT ![Len(@)].it = Tail(top.it)],
                                          [node |-> child,
                                           it |-> self_children(g.api, child)]),
                        !.calls = Append(@, child)]

RECURSIVE TreeBase_postorder_run(_)
TreeBase_postorder_run(g) ==
    IF g.pc \in {"yielded", "done"} THEN g
    ELSE TreeBase_postorder_run(TreeBase_postorder_step(g))

\* TreeBase.postorder(self): one next()
TreeBase_postorder(g) == TreeBase_postorder_run(TreeBase_postorder_step(g))

\* next(generator): resumes the body of whichever generator function made it
next(g) ==
    IF g.api \in FreeApis
    THEN CASE g.fn = "preorder"   -> preorder(g)
           [] g.fn = "postorder"  -> postorder(g)
           [] g.fn = "levelorder" -> levelorder(g)
    ELSE CASE g.fn = "preorder"   -> TreeBase_preorder(g)
           [] g.fn = "postorder"  -> TreeBase_postorder(g)
           [] g.fn = "levelorder" -> TreeBase_levelorder(g)

\* ------------------------------------------------------------- printing
Digits == <<"0", "1", "2", "3", "4", "5", "6", "7", "8", "9">>

\* str(value) of a non-negative int, as its characters
RECURSIVE str(_)
str(v) ==
    IF v < 10 THEN <<Digits[v + 1]>>
    ELSE str(v \div 10) \o <<Digits[(v % 10) + 1]>>

\* Faulty variant (C7): print(x) with the default end.
print_default_end(out, v) == out \o str(v) \o <<"\n">>

\* print(x, end=' ') and print()
print_end_space(out, v) == out \o str(v) \o <<" ">>
print_newline(out) == out \o <<"\n">>

\* ------------------------------------------------------------- the actions
\* Faulty variant (C8): the list s is one object shared by every generator (as a
\* module-level or default-argument list would be).
Resume_shared_list(i, g1) ==
    /\ gen' = [j \in DOMAIN gen |->
                  IF j = i THEN g1 ELSE [gen[j] EXCEPT !.s = g1.s]]
    /\ UNCHANGED <<simpletree, nodes, objs, printer, stdout>>

\* next() on generator i leaves it as g1; its locals are its own
Resume(i, g1) ==
    /\ gen' = [gen EXCEPT ![i] = g1]
    /\ UNCHANGED <<simpletree, nodes, objs, printer, stdout>>

\* def print_tree(node, value_func, children_func, traversal_func): the for loop
RECURSIVE print_tree_loop(_, _)
print_tree_loop(g, out) ==
    LET g1 == next(g)
    IN  IF g1.pc = "done" THEN out
        ELSE print_tree_loop(g1, print_end_space(out, value_func(g.api, g1.node)))

\* def print_tree(node, value_func, children_func, traversal_func)
print_tree(fn, api, out) == print_newline(print_tree_loop(NewGen(fn, api), out))

\* def print_tree(tree, traverser): the for loop
RECURSIVE TreeBase_print_tree_loop(_, _)
TreeBase_print_tree_loop(g, out) ==
    LET g1 == next(g)
    IN  IF g1.pc = "done" THEN out
        ELSE TreeBase_print_tree_loop(g1, print_end_space(out, self_value(g.api, g1.node)))

\* def print_tree(tree, traverser)
TreeBase_print_tree(fn, api, out) ==
    print_newline(TreeBase_print_tree_loop(NewGen(fn, api), out))

Preorder(i) ==
    /\ gen[i].fn = "preorder" /\ gen[i].api \in FreeApis
    /\ gen[i].pc # "done" /\ Len(gen[i].out) < MaxYield
    /\ Resume(i, preorder(gen[i]))

Levelorder(i) ==
    /\ gen[i].fn = "levelorder" /\ gen[i].api \in FreeApis
    /\ gen[i].pc # "done" /\ Len(gen[i].out) < MaxYield
    /\ Resume(i, levelorder(gen[i]))

Postorder(i) ==
    /\ gen[i].fn = "postorder" /\ gen[i].api \in FreeApis
    /\ gen[i].pc # "done"
    /\ Resume(i, postorder(gen[i]))

TreeBasePreorder(i) ==
    /\ gen[i].fn = "preorder" /\ gen[i].api \in MethodApis
    /\ gen[i].pc # "done" /\ Len(gen[i].out) < MaxYield
    /\ Resume(i, TreeBase_preorder(gen[i]))

TreeBaseLevelorder(i) ==
    /\ gen[i].fn = "levelorder" /\ gen[i].api \in MethodApis
    /\ gen[i].pc # "done" /\ Len(gen[i].out) < MaxYield
    /\ Resume(i, TreeBase_levelorder(gen[i]))

TreeBasePostorder(i) ==
    /\ gen[i].fn = "postorder" /\ gen[i].api \in MethodApis
    /\ gen[i].pc # "done"
    /\ Resume(i, TreeBase_postorder(gen[i]))

\* the script's data: one shape in its three representations
Data(sh) ==
    /\ simpletree = TupleOf(sh, 1)
    /\ nodes = NodesOf(sh)
    /\ objs = NodeTree_init(sh)

Descs == Fns \X (FreeApis \cup MethodApis)

\* Two generators are created on the same data and advanced in any interleaving.
Init ==
    /\ \E sh \in Shapes : Data(sh)
    /\ \E d1 \in Descs, d2 \in Descs :
          gen = <<NewGen(d1[1], d1[2]), NewGen(d2[1], d2[2])>>
    /\ printer = [todo |-> <<>>, lines |-> <<>>]
    /\ stdout = <<>>

Next ==
    \E i \in DOMAIN gen :
        \/ Preorder(i)
        \/ Levelorder(i)
        \/ Postorder(i)
        \/ TreeBasePreorder(i)
        \/ TreeBaseLevelorder(i)
        \/ TreeBasePostorder(i)

Spec == Init /\ [][Next]_vars

\* ------------------------------------------------ the script's print_tree calls
\* printer.todo: the calls still to make, as <<traversal, api>>; printer.lines: for
\* each call made, the length of stdout before and after it.
PrintTree ==
    /\ Len(printer.todo) > 0
    /\ Head(printer.todo)[2] \in FreeApis
    /\ LET d == Head(printer.todo) IN
       /\ stdout' = print_tree(d[1], d[2], stdout)
       /\ printer' = [todo |-> Tail(printer.todo),
                      lines |-> Append(printer.lines, <<d, Len(stdout), Len(stdout')>>)]
    /\ UNCHANGED <<simpletree, nodes, objs, gen>>

TreeBasePrintTree ==
    /\ Len(printer.todo) > 0
    /\ Head(printer.todo)[2] \in MethodApis
    /\ LET d == Head(printer.todo) IN
       /\ stdout' = TreeBase_print_tree(d[1], d[2], stdout)
       /\ printer' = [todo |-> Tail(printer.todo),
                      lines |-> Append(printer.lines, <<d, Len(stdout), Len(stdout')>>)]
    /\ UNCHANGED <<simpletree, nodes, objs, gen>>

InitPrint ==
    /\ \E sh \in Shapes : Data(sh)
    /\ gen = <<>>
    /\ \E d1 \in Descs, d2 \in Descs : printer = [todo |-> <<d1, d2>>, lines |-> <<>>]
    /\ stdout = <<>>

NextPrint == PrintTree \/ TreeBasePrintTree

SpecPrint == InitPrint /\ [][NextPrint]_vars

\* ------------------------------------- structures whose children relation has a cycle
\* The linked records of a shape, with first_child of one record x set to a record y.
Relinked(h, x, y) == [h EXCEPT ![x].first_child = y]
NodeTree_relinked(h, x, y) == [h EXCEPT ![x]._first_child = y]

\* Inside a next() of postorder the recursion is followed one call at a time, to the
\* depth MaxDepth.
PostorderStep(i) ==
    /\ gen[i].fn = "postorder" /\ gen[i].api \in FreeApis
    /\ gen[i].pc # "done"
    /\ Len(postorder_step(gen[i]).frames) <= MaxDepth
    /\ Resume(i, postorder_step(gen[i]))

TreeBasePostorderStep(i) ==
    /\ gen[i].fn = "postorder" /\ gen[i].api \in MethodApis
    /\ gen[i].pc # "done"
    /\ Len(TreeBase_postorder_step(gen[i]).frames) <= MaxDepth
    /\ Resume(i, TreeBase_postorder_step(gen[i]))

InitCyc ==
    /\ \E sh \in Shapes :
          /\ simpletree = TupleOf(sh, 1)
          /\ \/ nodes = NodesOf(sh) /\ objs = NodeTree_init(sh)
             \/ \E x \in 1..sh.n, y \in 1..sh.n :
                   /\ nodes = Relinked(NodesOf(sh), x, y)
                   /\ objs = NodeTree_relinked(NodeTree_init(sh), x, y)
    /\ \E fn \in Fns, api \in {"children", "NodeTree"} : gen = <<NewGen(fn, api)>>
    /\ printer = [todo |-> <<>>, lines |-> <<>>]
    /\ stdout = <<>>

NextCyc ==
    \/ Preorder(1)
    \/ Levelorder(1)
    \/ PostorderStep(1)
    \/ TreeBasePreorder(1)
    \/ TreeBaseLevelorder(1)
    \/ TreeBasePostorderStep(1)

SpecCyc == InitCyc /\ [][NextCyc]_vars /\ WF_vars(NextCyc)

\* =============================================================== properties
\* The tree a generator walks, read through the accessors it was given.
KidsOf(api, x) ==
    IF api \in FreeApis THEN children_func(api, x) ELSE self_children(api, x)

ValueOf(api, x) ==
    IF api \in FreeApis THEN value_func(api, x) ELSE self_value(api, x)

RootOf(api) == IF api \in FreeApis THEN root_arg(api) ELSE self_root(api)

Range(seq) == {seq[k] : k \in 1..Len(seq)}

RECURSIVE Subtree(_, _)
Subtree(api, x) ==
    {x} \cup UNION {Subtree(api, c) : c \in Range(KidsOf(api, x))}

RECURSIVE SumSizes(_, _)
RECURSIVE Size(_, _)
Size(api, x) == 1 + SumSizes(api, KidsOf(api, x))
SumSizes(api, ks) ==
    IF Len(ks) = 0 THEN 0 ELSE Size(api, Head(ks)) + SumSizes(api, Tail(ks))

Descendants(api, x) == Subtree(api, x) \ {x}

ValuesOf(api, seq) == [k \in 1..Len(seq) |-> ValueOf(api, seq[k])]

IsPrefix(a, b) == Len(a) <= Len(b) /\ \A k \in 1..Len(a) : a[k] = b[k]

NoRepeats(seq) == \A j, k \in 1..Len(seq) : seq[j] = seq[k] => j = k

\* the script's data is the tree 1 -> [2 -> [4, 5], 3]
IsScriptTree == simpletree = TupleOf(ScriptShape, 1)

\* C1: once exhausted, a traversal of a tree of n nodes has yielded exactly n nodes,
\* every node of the tree exactly once (just the root for a single-node tree);
\* before that it has yielded no node twice and only nodes of the tree.
C1_EveryNodeOnce ==
    \A i \in DOMAIN gen :
        LET g == gen[i]
            r == RootOf(g.api)
        IN  /\ NoRepeats(g.out)
            /\ Range(g.out) \subseteq Subtree(g.api, r)
            /\ g.pc = "done" =>
                  /\ Len(g.out) = Size(g.api, r)
                  /\ Range(g.out) = Subtree(g.api, r)
                  /\ (Size(g.api, r) = 1 => g.out = <<r>>)

C1_Witness ==
    \E i \in DOMAIN gen :
        /\ gen[i].pc = "done" /\ gen[i].api \in FreeApis
        /\ Len(gen[i].out) = 5
        /\ \E j \in DOMAIN gen :
              gen[j].pc = "done" /\ gen[j].fn # gen[i].fn /\ Len(gen[j].out) = 5

\* the recursive reference definition of preorder
RECURSIVE PreRef(_, _)
RECURSIVE PreRefAll(_, _)
PreRef(api, x) == <<x>> \o PreRefAll(api, KidsOf(api, x))
PreRefAll(api, ks) ==
    IF Len(ks) = 0 THEN <<>>
    ELSE PreRef(api, Head(ks)) \o PreRefAll(api, Tail(ks))

\* C2: what the stack-based preorder has yielded is always a prefix of the recursive
\* reference pre(root), and all of it once exhausted; the root comes first; on the
\* script's tree the values are 1 2 4 5 3.
C2_PreorderIsRecursivePreorder ==
    \A i \in DOMAIN gen :
        LET g == gen[i] IN
        (g.fn = "preorder" /\ g.api \in FreeApis) =>
            /\ IsPrefix(g.out, PreRef(g.api, RootOf(g.api)))
            /\ (Len(g.out) > 0 => g.out[1] = RootOf(g.api))
            /\ (g.pc = "done" => g.out = PreRef(g.api, RootOf(g.api)))
            /\ (g.pc = "done" /\ IsScriptTree =>
                   ValuesOf(g.api, g.out) = <<1, 2, 4, 5, 3>>)

C2_Witness ==
    \E i \in DOMAIN gen :
        /\ gen[i].fn = "preorder" /\ gen[i].api \in FreeApis
        /\ gen[i].pc = "done" /\ IsScriptTree

\* C3: postorder yields a node only after all of its descendants, and all of an
\* earlier child's subtree before any node of a later sibling's subtree; once
\* exhausted the root is last; on the script's tree the values are 4 5 2 3 1.
C3_PostorderOrder ==
    \A i \in DOMAIN gen :
        LET g == gen[i]
            r == RootOf(g.api)
        IN
        (g.fn = "postorder" /\ g.api \in FreeApis) =>
            /\ \A k \in 1..Len(g.out) :
                  \A d \in Descendants(g.api, g.out[k]) :
                      \E j \in 1..(k - 1) : g.out[j] = d
            /\ \A x \in Subtree(g.api, r) :
                  LET ks == KidsOf(g.api, x) IN
                  \A a, b \in 1..Len(ks) :
                      a < b =>
                         \A j \in 1..Len(g.out) :
                             g.out[j] \in Subtree(g.api, ks[b]) =>
                                \A u \in Subtree(g.api, ks[a]) :
                                    \E k \in 1..(j - 1) : g.out[k] = u
            /\ (g.pc = "done" => Len(g.out) > 0 /\ Last(g.out) = r)
            /\ (g.pc = "done" /\ IsScriptTree =>
                   ValuesOf(g.api, g.out) = <<4, 5, 2, 3, 1>>)

C3_Witness ==
    \E i \in DOMAIN gen :
        /\ gen[i].fn = "postorder" /\ gen[i].api \in FreeApis
        /\ gen[i].pc = "done" /\ IsScriptTree

\* depth of a node below the root, its parent, and its place among its siblings
RECURSIVE DepthFrom(_, _, _)
DepthFrom(api, x, y) ==
    IF x = y THEN 0
    ELSE 1 + DepthFrom(api,
                       CHOOSE c \in Range(KidsOf(api, x)) : y \in Subtree(api, c), y)

Depth(api, y) == DepthFrom(api, RootOf(api), y)

ParentOf(api, y) ==
    CHOOSE p \in Subtree(api, RootOf(api)) : y \in Range(KidsOf(api, p))

IndexIn(seq, y) == CHOOSE k \in 1..Len(seq) : seq[k] = y

Before(seq, a, b) == \E j, k \in 1..Len(seq) : j < k /\ seq[j] = a /\ seq[k] = b

RECURSIVE RunAloneFrom(_)
RunAloneFrom(g) == IF g.pc = "done" THEN g.out ELSE RunAloneFrom(next(g))

RunAlone(fn, api) == RunAloneFrom(NewGen(fn, api))

\* the text of the k-th print_tree call on stdout
LineText(k) == SubSeq(stdout, printer.lines[k][2] + 1, printer.lines[k][3])

\* the free-function accessors and the adapter over the same representation
AdapterOf(api) == IF api = "itemgetter" THEN "TupleTree" ELSE "NodeTree"

\* C5: for one traversal kind, the TreeBase method of an adapter and the free
\* function driven by the matching accessor yield the same sequence of values, and
\* print_tree prints the same text for both.
C5_FacadeSameAsFunctions ==
    /\ \A fn \in Fns, api \in FreeApis :
          ValuesOf(api, RunAlone(fn, api))
            = ValuesOf(AdapterOf(api), RunAlone(fn, AdapterOf(api)))
    /\ \A j, k \in 1..Len(printer.lines) :
          LET dj == printer.lines[j][1]
              dk == printer.lines[k][1]
          IN  (dj[1] = dk[1] /\ dj[2] \in FreeApis /\ dk[2] = AdapterOf(dj[2]))
                 => LineText(j) = LineText(k)

C5_Witness ==
    /\ Len(printer.lines) = 2
    /\ printer.lines[1][1][2] = "children"
    /\ printer.lines[2][1][2] = "NodeTree"
    /\ printer.lines[1][1][1] = printer.lines[2][1][1]
    /\ Len(LineText(2)) >= 6

\* C6: for one traversal kind, the nested-pair tree under itemgetter(1) and the
\* first_child/next_sibling records under children() yield the same values, position
\* by position, and the same whole sequence once both are exhausted.
C6_RepresentationsAgree ==
    \A i, j \in DOMAIN gen :
        LET a == gen[i]
            b == gen[j]
        IN  (a.fn = b.fn /\ a.api = "itemgetter" /\ b.api = "children") =>
               /\ \A k \in 1..Len(a.out) :
                     k <= Len(b.out) =>
                        ValueOf(a.api, a.out[k]) = ValueOf(b.api, b.out[k])
               /\ (a.pc = "done" /\ b.pc = "done") =>
                     ValuesOf(a.api, a.out) = ValuesOf(b.api, b.out)

C6_Witness ==
    \E i, j \in DOMAIN gen :
        /\ gen[i].fn = gen[j].fn
        /\ gen[i].api = "itemgetter" /\ gen[j].api = "children"
        /\ gen[i].pc = "done" /\ gen[j].pc = "done"
        /\ Len(gen[i].out) >= 3

RECURSIVE JoinSpaces(_)
JoinSpaces(vs) ==
    IF Len(vs) = 0 THEN <<>>
    ELSE IF Len(vs) = 1 THEN str(vs[1])
    ELSE str(vs[1]) \o <<" ">> \o JoinSpaces(Tail(vs))

RECURSIVE EachThenSpace(_)
EachThenSpace(vs) ==
    IF Len(vs) = 0 THEN <<>>
    ELSE str(vs[1]) \o <<" ">> \o EachThenSpace(Tail(vs))

LineValues(k) ==
    LET d == printer.lines[k][1] IN ValuesOf(d[2], RunAlone(d[1], d[2]))

\* C7 as claimed: the text of a print_tree call is the values, in the order the
\* traversal yields them, joined by single spaces, followed by the newline.
C7_LineIsValuesJoined ==
    \A k \in 1..Len(printer.lines) :
        LineText(k) = JoinSpaces(LineValues(k)) \o <<"\n">>

\* C7 as amended: the text of a print_tree call is the values, in the order the
\* traversal yields them, each followed by a single space (the last one too),
\* followed by one newline, the only newline of the call.
C7_LineIsValuesEachThenSpace ==
    \A k \in 1..Len(printer.lines) :
        /\ LineText(k) = EachThenSpace(LineValues(k)) \o <<"\n">>
        /\ Cardinality({c \in 1..Len(LineText(k)) : LineText(k)[c] = "\n"}) = 1

C7_Witness ==
    /\ Len(printer.lines) = 2
    /\ printer.lines[1][1][2] \in FreeApis
    /\ printer.lines[2][1][2] \in MethodApis
    /\ Len(LineValues(1)) >= 3

\* C8: however the next() calls of the generators are interleaved, each has yielded
\* a prefix of what it yields alone, and all of it once exhausted; a next() of one
\* generator changes no other generator, and none changes the tree.
C8_InterleavingIsSafe ==
    /\ [](\A i \in DOMAIN gen :
             /\ IsPrefix(gen[i].out, RunAlone(gen[i].fn, gen[i].api))
             /\ (gen[i].pc = "done" => gen[i].out = RunAlone(gen[i].fn, gen[i].api)))
    /\ [][/\ \A i, j \in DOMAIN gen :
                (i # j /\ gen'[i] # gen[i]) => gen'[j] = gen[j]
          /\ simpletree' = simpletree
          /\ nodes' = nodes
          /\ objs' = objs]_vars

C8_Witness ==
    /\ Len(gen) = 2
    /\ gen[1].pc = "yielded" /\ gen[2].pc = "yielded"
    /\ Len(gen[1].out) = 2 /\ Len(gen[2].out) = 3
    /\ gen[1].fn # gen[2].fn

\* C10: preorder and levelorder yield one node per next(), and apply the accessor
\* to a yielded node only on the following next(): when the k-th node has just been
\* yielded the accessor has been applied to exactly the first k-1 yielded nodes, in
\* that order and once each; once exhausted, to every yielded node.
C10_LazyAccessor ==
    /\ [](\A i \in DOMAIN gen :
             LET g == gen[i] IN
             (g.fn \in {"preorder", "levelorder"} /\ g.api \in FreeApis) =>
                /\ (g.pc = "start" => g.out = <<>> /\ g.calls = <<>>)
                /\ (g.pc = "yielded" => g.calls = Front(g.out))
                /\ (g.pc = "done" => g.calls = g.out)
                /\ NoRepeats(g.calls))
    /\ [][\A i \in DOMAIN gen :
             (gen[i].fn \in {"preorder", "levelorder"} /\ gen[i].api \in FreeApis
                /\ gen'[i] # gen[i]) =>
                \/ gen'[i].pc = "yielded" /\ Len(gen'[i].out) = Len(gen[i].out) + 1
                \/ gen'[i].pc = "done" /\ gen'[i].out = gen[i].out]_vars

C10_Witness ==
    \E i \in DOMAIN gen :
        /\ gen[i].fn = "levelorder" /\ gen[i].api \in FreeApis
        /\ gen[i].pc = "yielded"
        /\ Len(gen[i].out) = 3 /\ Len(gen[i].calls) = 2

\* the nodes reachable from x through the children relation in one or more steps
RECURSIVE Closure(_, _)
Closure(api, S) ==
    LET T == S \cup UNION {Range(KidsOf(api, x)) : x \in S}
    IN  IF T = S THEN S ELSE Closure(api, T)

ReachFrom(api, x) == Closure(api, Range(KidsOf(api, x)))

OnCycle(api, x) == x \in ReachFrom(api, x)

\* the children relation reachable from the root contains a cycle
Cyclic(api) ==
    \E x \in {RootOf(api)} \cup ReachFrom(api, RootOf(api)) : OnCycle(api, x)

\* the stack or queue as the loop test of the next next() will find it
Pending(g) ==
    IF g.pc = "start" THEN <<g.node>> ELSE g.s \o KidsOf(g.api, g.node)

\* C9 as claimed, its part about a structure with a reachable cycle: no traversal is
\* ever exhausted, the stack/queue of a started preorder or levelorder is never
\* empty, and postorder never yields the root nor any node on a cycle.
C9_StackNeverEmpty ==
    LET g == gen[1] IN
    Cyclic(g.api) =>
        /\ g.pc # "done"
        /\ (g.fn # "postorder" /\ g.pc # "start" => Len(g.s) > 0)
        /\ (g.fn = "postorder" =>
               /\ RootOf(g.api) \notin Range(g.out)
               /\ \A k \in 1..Len(g.out) : ~OnCycle(g.api, g.out[k]))

\* C9 as amended: on a structure with a reachable cycle no traversal is ever
\* exhausted: preorder and levelorder find their stack/queue non-empty whenever the
\* loop condition tests it, that is once the children of the node just yielded have
\* been added (while the generator is suspended at its yield it may be empty), and
\* they go on yielding (here: up to MaxYield nodes); postorder recurses ever deeper
\* (here: to depth MaxDepth) and never yields the root nor any node on a cycle.
\* Without a reachable cycle every traversal is eventually exhausted, its
\* stack/queue empty.
C9_CycleNeverEnds ==
    LET g == gen[1] IN
    /\ [](Cyclic(g.api) =>
             /\ g.pc # "done"
             /\ (g.fn # "postorder" => Len(Pending(g)) > 0)
             /\ (g.fn = "postorder" =>
                    /\ RootOf(g.api) \notin Range(g.out)
                    /\ \A k \in 1..Len(g.out) : ~OnCycle(g.api, g.out[k])))
    /\ (Cyclic(g.api) /\ g.fn # "postorder" => <>(Len(g.out) = MaxYield))
    /\ (Cyclic(g.api) /\ g.fn = "postorder" => <>(Len(g.frames) = MaxDepth))
    /\ (~Cyclic(g.api) =>
           <>[](g.pc = "done" /\ Len(g.s) = 0 /\ Len(g.frames) = 0))

C9_Witness ==
    /\ Cyclic(gen[1].api)
    /\ gen[1].fn = "levelorder" /\ gen[1].api = "children"
    /\ Len(gen[1].out) = MaxYield
    /\ Len(gen[1].s) > 1

=============================================================================
